---- MODULE Spec2Model ----
(***************************************************************************)
(* The fetch / cache / navigate / save / invalidate cycle of               *)
(* streamlit_app.py: one reviewer session against the remote sheet.        *)
(*                                                                         *)
(* A string is a sequence of tokens: " " is one whitespace character and   *)
(* any other token is a run of non-whitespace characters, so "" is <<>>,   *)
(* "Yes" is <<"Yes">> and " Yes" is <<" ", "Yes">>.                        *)
(* Indices are Python's (0-based); df[pos + 1] is df.iloc[pos].            *)
(***************************************************************************)
EXTENDS Integers, Sequences, FiniteSets, TLC

\* Largest number of rows the remote sheet holds.
MaxRows == 3

\* st.session_state before the first assignment of "pos".
NoPos == -1

\* The decision selector has not been rendered yet.
NoWidget == -1

\* A remote row whose _row is absent or not a number.
Missing == -1

\* A cache slot fetch_sheet has not filled (or that clear() emptied).
NoEntry == [present |-> FALSE, frame |-> <<>>]

\* No POST was issued.
NoPost == [row |-> -1, dec |-> <<>>, fields |-> {}]

dec_opts == << <<>>, <<"Yes">>, <<"No">> >>

\* What the sheet's Poenaru_Decision column may hold before this session
\* writes to it: empty, whitespace, or a value written by another form
\* variant ("Yes" and "No" get there by this form's saves).
StoredDecisions == { <<>>, <<" ">>, <<"Include">> }

----------------------------------------------------------------------------
(* Pure helpers *)

RECURSIVE LStrip(_)
LStrip(s) == IF s # <<>> /\ Head(s) = " " THEN LStrip(Tail(s)) ELSE s

RECURSIVE RStrip(_)
RStrip(s) ==
    IF s # <<>> /\ s[Len(s)] = " " THEN RStrip(SubSeq(s, 1, Len(s) - 1)) ELSE s

\* str.strip()
Strip(s) == RStrip(LStrip(s))

\* pd.to_numeric(errors="coerce").fillna(0).astype(int)
ToNumericFill(x) == IF x = Missing THEN 0 ELSE x

\* list.index(x): position (0-based) of the first element equal to x.
IndexOf(s, x) == (CHOOSE i \in 1..Len(s) : s[i] = x /\ \A j \in 1..(i - 1) : s[j] # x) - 1

\* Insertion of r into a list sorted by _row, after the records with an
\* equal _row (the order a small-array sort leaves ties in).
RECURSIVE InsertByRow(_, _)
InsertByRow(s, r) ==
    IF s = <<>> THEN <<r>>
    ELSE IF r._row < Head(s)._row THEN <<r>> \o s
    ELSE <<Head(s)>> \o InsertByRow(Tail(s), r)

\* df.sort_values("_row").reset_index(drop=True)
RECURSIVE SortByRow(_)
SortByRow(s) ==
    IF s = <<>> THEN <<>>
    ELSE InsertByRow(SortByRow(SubSeq(s, 1, Len(s) - 1)), s[Len(s)])

\* df["Poenaru_Decision"].astype(str).str.strip().eq("")
IsUnreviewed(r) == Strip(r.Poenaru_Decision) = <<>>

FetchFilterOff(rows) == rows

\* The body of fetch_sheet after a successful envelope: coerce _row,
\* filter client-side, sort.
FetchFilterOn(rows) == SelectSeq(rows, IsUnreviewed)

BuildFrame(rows, flag) ==
    LET coerced == [i \in 1..Len(rows) |->
                      [_row |-> ToNumericFill(rows[i]._row),
                       Poenaru_Decision |-> rows[i].Poenaru_Decision]]
    IN SortByRow(IF flag THEN FetchFilterOn(coerced) ELSE coerced)

ClearFilteredOnly(c) == [c EXCEPT ![TRUE] = NoEntry]

\* fetch_sheet.clear(): every memoized entry of the function is dropped.
ClearCache(c) == [f \in BOOLEAN |-> NoEntry]

save_row_decoded(resp) == resp # "throw"

\* save_row's return value for a response: bool(js.get("ok")), or False
\* when the request or the JSON decoding raised.
save_row(resp) == resp = "ok"

HasDecisionAlways(d) == TRUE

\* Line 327: `if not decision`.
HasDecision(d) == d # <<>>

\* Line 152.
DecisionVal(r) == Strip(r.Poenaru_Decision)

RevealIfListed(decision_val) ==
    \E i \in 1..Len(dec_opts) : dec_opts[i] = decision_val

RevealOnlyYes(decision_val) == decision_val = <<"Yes">>

\* Line 343: the AI block is rendered.
RevealCondition(decision_val) ==
    decision_val # <<>> /\ decision_val \in {<<"Yes">>, <<"No">>}

\* Line 322: the default index of the decision selector.
DecIndex(decision_val) ==
    IF \E i \in 1..Len(dec_opts) : dec_opts[i] = decision_val
    THEN IndexOf(dec_opts, decision_val) ELSE 0

PromptsNeverHalt(p) == FALSE

\* Lines 44-47: prompts.csv lacks SR or Prompt; load_prompts stops the run.
PromptsHalt(p) == p = "bad"

\* Line 38: load_prompts is memoized once it has returned; a run it
\* stopped memoizes nothing.
PromptsAfterLoad(p) == IF PromptsHalt(p) THEN p ELSE "loaded"

\* The POST handler of the sheet: a partial update of the row whose _row
\* is `row`; no such row, no update.
RemoteHas(rem, row) == \E i \in 1..Len(rem) : rem[i]._row = row

RemoteApply(rem, row, d) ==
    [i \in 1..Len(rem) |->
        IF rem[i]._row = row THEN [rem[i] EXCEPT !.Poenaru_Decision = d]
        ELSE rem[i]]

----------------------------------------------------------------------------
VARIABLES
    remote,          \* the sheet: rows in sheet order, [_row, Poenaru_Decision]
    cache,           \* st.cache_data of fetch_sheet: flag -> entry
    only_unreviewed, \* the sidebar checkbox
    pos,             \* st.session_state.pos
    df,              \* the frame served to the last render pass
    view,            \* how the last pass ended: "record" (form rendered),
                     \* "done" (All Done, st.stop), "error" (st.error,
                     \* st.stop), "fetch_exception", "index_error",
                     \* "config" (load_prompts stopped the run)
    ai_shown,        \* the AI block was rendered in the last pass
    decision,        \* value of the decision selector
    dec_widget,      \* default index the selector was last rendered with
    pc,              \* "idle", or "rerun" after st.rerun()
    last,            \* what the last pass did at the Save button
    awaiting,        \* last acknowledged write that no unfiltered frame
                     \* has been served after
    prompts          \* prompts.csv: "bad" (a required column is absent),
                     \* "ok", or "loaded" (load_prompts is memoized and the
                     \* file is not read again)

vars == <<remote, cache, only_unreviewed, pos, df, view, ai_shown, decision,
          dec_widget, pc, last, awaiting, prompts>>

\* A pass that did not reach save_row.
NoSave == [ev |-> "pass", post |-> NoPost, resp |-> "none", ret |-> "none"]

\* A pass that ended in st.rerun() at a navigation widget.
Moved(ev) == [NoSave EXCEPT !.ev = ev]

\* Sheets of up to MaxRows rows: the row in sheet position k carries
\* _row = 10 * k and a stored decision, or is a row without a usable _row
\* (and without a decision).
InitRows(k) ==
    { [_row |-> 10 * k, Poenaru_Decision |-> d] : d \in StoredDecisions }
        \cup { [_row |-> Missing, Poenaru_Decision |-> <<>>] }

InitRemotes ==
    UNION { { r \in [1..n -> UNION { InitRows(k) : k \in 1..n }] :
                \A k \in 1..n : r[k] \in InitRows(k) }
            : n \in 0..MaxRows }

Init ==
    /\ remote \in InitRemotes
    /\ cache = [f \in BOOLEAN |-> NoEntry]
    /\ only_unreviewed = FALSE
    /\ pos = NoPos
    /\ df = <<>>
    /\ view = "none"
    /\ ai_shown = FALSE
    /\ decision = <<>>
    /\ dec_widget = NoWidget
    /\ pc = "rerun"
    /\ last = NoSave
    /\ awaiting = NoPost
    /\ prompts \in {"ok", "bad"}

----------------------------------------------------------------------------
(* One run of the script from line 96 to the widgets, with the checkbox at *)
(* `flag`, the cache at `c` and the cursor at `p`. `out` is what the sheet *)
(* answers if fetch_sheet has to ask it: "ok", "notok" (envelope without a *)
(* true ok) or "throw" (requests.get or r.json() raised).                  *)
FetchOutcomes == {"ok", "notok", "throw"}

Render(flag, c, p, out) ==
    LET hit   == c[flag].present
        frame == IF hit THEN c[flag].frame ELSE BuildFrame(remote, flag)
        total == Len(frame)
        p1    == IF p = NoPos THEN 0 ELSE p
    IN
    /\ only_unreviewed' = flag
    /\ pc' = "idle"
    /\ last' = NoSave
    /\ prompts' = PromptsAfterLoad(prompts)
    /\ IF PromptsHalt(prompts)
       THEN \* line 97: st.error, st.stop inside load_prompts; line 98 is
            \* not reached
            /\ view' = "config"
            /\ ai_shown' = FALSE
            /\ UNCHANGED <<cache, df, pos, decision, dec_widget, awaiting>>
       ELSE IF ~hit /\ out # "ok"
       THEN \* lines 58-60 (st.error, st.stop) or an uncaught exception:
            \* nothing is memoized, line 116 is not reached
            /\ view' = IF out = "notok" THEN "error" ELSE "fetch_exception"
            /\ cache' = c
            /\ df' = <<>>
            /\ pos' = p
            /\ ai_shown' = FALSE
            /\ UNCHANGED <<decision, dec_widget, awaiting>>
       ELSE /\ cache' = [c EXCEPT ![flag] = [present |-> TRUE, frame |-> frame]]
            /\ df' = frame
            /\ pos' = p1
            /\ awaiting' = IF ~flag THEN NoPost ELSE awaiting
            /\ IF total = 0
               THEN \* lines 119-127
                    /\ view' = "done"
                    /\ ai_shown' = FALSE
                    /\ UNCHANGED <<decision, dec_widget>>
               ELSE IF p1 >= total
               THEN \* line 130: df.iloc[pos] raises IndexError
                    /\ view' = "index_error"
                    /\ ai_shown' = FALSE
                    /\ UNCHANGED <<decision, dec_widget>>
               ELSE LET row          == frame[p1 + 1]
                        decision_val == DecisionVal(row)
                        idx          == DecIndex(decision_val)
                    IN /\ view' = "record"
                       /\ ai_shown' = RevealCondition(decision_val)
                       \* a selectbox without a key is identified by its
                       \* arguments: a new default index is a new widget,
                       \* the same default index keeps the value it holds
                       /\ dec_widget' = idx
                       /\ decision' = IF idx = dec_widget THEN decision
                                      ELSE dec_opts[idx + 1]

\* The run st.rerun() queued.
RerunPass ==
    /\ pc = "rerun"
    /\ \E out \in FetchOutcomes :
         Render(only_unreviewed, cache, pos, out)
    /\ UNCHANGED remote

\* The reviewer reruns the script (no widget changed).
UserRerun ==
    /\ pc = "idle"
    /\ \E out \in FetchOutcomes :
         Render(only_unreviewed, cache, pos, out)
    /\ UNCHANGED remote

\* The reviewer flips "Only unreviewed" (line 96); the script runs.
Toggle ==
    /\ pc = "idle"
    /\ \E out \in FetchOutcomes :
         Render(~only_unreviewed, cache, pos, out)
    /\ UNCHANGED remote

\* prompts.csv is edited before load_prompts has returned.
EditPrompts ==
    /\ prompts \in {"ok", "bad"}
    /\ pc = "idle"
    /\ prompts' = IF prompts = "bad" THEN "ok" ELSE "bad"
    /\ UNCHANGED <<remote, cache, only_unreviewed, pos, df, view, ai_shown,
                   decision, dec_widget, pc, last, awaiting>>

----------------------------------------------------------------------------
(* Widget events. Each runs the script once more; the pass is served the   *)
(* memoized frame it was served before (df = cache[only_unreviewed].frame) *)
(* and reaches the widget with the same row.                               *)

Interactive == pc = "idle" /\ view = "record"

sheet_rows == [i \in 1..Len(df) |-> df[i]._row]

\* Line 130.
current_row == df[pos + 1]._row

sheet_row_index == pos

\* Lines 144-145.
sheet_row_num == df[pos + 1]._row

\* Lines 330-333.
Payload(d) == [Poenaru_Decision |-> d, Reviewed_At |-> "now"]

CacheKeptAfterSave(ok, c) == c

\* Lines 335-340: the cache after save_row returned ok.
CacheAfterSave(ok, c) == IF ok THEN ClearCache(c) ELSE c

\* Lines 335-340: st.rerun() is called.
RerunAfterSave(ok) == ok

\* The reviewer picks d in the decision selector (lines 319-324).
SelectDecision ==
    /\ Interactive
    /\ \E i \in 1..Len(dec_opts) :
         /\ dec_opts[i] # decision
         /\ decision' = dec_opts[i]
    /\ last' = NoSave
    /\ UNCHANGED <<remote, cache, only_unreviewed, pos, df, view, ai_shown,
                   dec_widget, pc, awaiting, prompts>>

\* What a POST can come to: "ok" (written, envelope ok), "notok" (not
\* written, envelope without a true ok), "throw" (not written; the request
\* or the decoding raised), "lost" (written, but the response timed out or
\* could not be decoded).
SaveOutcomes == {"ok", "notok", "throw", "lost"}

\* The outcomes in which the client learns what the sheet did.
FaithfulOutcomes == {"ok", "notok", "throw"}

\* The reviewer presses Save Decision (lines 326-340).
SaveWith(outs) ==
    /\ Interactive
    /\ IF ~HasDecision(decision)
       THEN \* line 328: st.warning
            /\ last' = [NoSave EXCEPT !.ev = "save"]
            /\ UNCHANGED <<remote, cache, pc, awaiting>>
       ELSE \E out \in outs :
            LET written == out \in {"ok", "lost"}
                resp    == IF out = "lost" THEN "throw" ELSE out
                ok      == save_row(resp)
                post    == [row |-> sheet_row_num, dec |-> Payload(decision).Poenaru_Decision,
                            fields |-> DOMAIN Payload(decision)]
            IN /\ written => RemoteHas(remote, post.row)
               /\ remote' = IF written THEN RemoteApply(remote, post.row, post.dec)
                            ELSE remote
               /\ cache' = CacheAfterSave(ok, cache)
               /\ pc' = IF RerunAfterSave(ok) THEN "rerun" ELSE "idle"
               /\ awaiting' = IF ok THEN post ELSE awaiting
               /\ last' = [ev |-> "save", post |-> post, resp |-> resp,
                           ret |-> IF ok THEN "true" ELSE "false"]
    /\ UNCHANGED <<only_unreviewed, pos, df, view, ai_shown, decision, dec_widget,
                   prompts>>

Save == SaveWith(FaithfulOutcomes)

SaveLossy == SaveWith(SaveOutcomes)

JumpTargetIsId(rows, jump) == jump

\* Line 138.
JumpTarget(rows, jump) == IndexOf(rows, jump)

\* The reviewer picks the j-th option of "Jump to row" (lines 132-139).
Jump ==
    /\ Interactive
    /\ \E j \in 1..Len(sheet_rows) :
         LET jump == sheet_rows[j]
         IN IF jump # current_row
            THEN /\ pos' = JumpTarget(sheet_rows, jump)
                 /\ pc' = "rerun"
                 /\ last' = Moved("jump")
                 \* the run ends at line 139, before the decision selector:
                 \* a widget a finished run did not render loses its value
                 /\ decision' = <<>>
                 /\ dec_widget' = NoWidget
            ELSE /\ last' = NoSave
                 /\ UNCHANGED <<pos, pc, decision, dec_widget>>
    /\ UNCHANGED <<remote, cache, only_unreviewed, df, view, ai_shown, awaiting,
                   prompts>>

\* Line 466.
prev_disabled == pos = 0

NextNeverDisabled == FALSE

\* Line 484.
next_disabled == pos >= Len(df) - 1

\* Lines 467-469.
Prev ==
    /\ Interactive
    /\ ~prev_disabled
    /\ pos' = pos - 1
    /\ pc' = "rerun"
    /\ last' = Moved("prev")
    /\ UNCHANGED <<remote, cache, only_unreviewed, df, view, ai_shown, decision,
                   dec_widget, awaiting, prompts>>

\* Lines 485-487.
NextRow ==
    /\ Interactive
    /\ ~next_disabled
    /\ pos' = pos + 1
    /\ pc' = "rerun"
    /\ last' = Moved("next")
    /\ UNCHANGED <<remote, cache, only_unreviewed, df, view, ai_shown, decision,
                   dec_widget, awaiting, prompts>>

Next ==
    \/ RerunPass
    \/ UserRerun
    \/ Toggle
    \/ EditPrompts
    \/ SelectDecision
    \/ Save
    \/ Jump
    \/ Prev
    \/ NextRow

Spec == Init /\ [][Next]_vars

\* The same session when a POST's response may also be lost.
NextLossy ==
    \/ RerunPass
    \/ UserRerun
    \/ Toggle
    \/ EditPrompts
    \/ SelectDecision
    \/ SaveLossy
    \/ Jump
    \/ Prev
    \/ NextRow

SpecLossy == Init /\ [][NextLossy]_vars

----------------------------------------------------------------------------
(* Properties *)

RowIds(frame) == { frame[i]._row : i \in 1..Len(frame) }

Holds(frame, post) ==
    \E i \in 1..Len(frame) :
        frame[i]._row = post.row /\ frame[i].Poenaru_Decision = post.dec

Served == {"record", "done", "index_error"}

\* A step that re-fetches: the filter is toggled, or the run queued by a
\* successful save.
IsRefresh ==
    \/ only_unreviewed' # only_unreviewed
    \/ pc = "rerun" /\ last.ret = "true" /\ pc' = "idle"

TypeOK ==
    /\ only_unreviewed \in BOOLEAN
    /\ pos \in {NoPos} \cup (0..MaxRows)
    /\ view \in {"none", "record", "done", "error", "fetch_exception",
                 "index_error", "config"}
    /\ prompts \in {"ok", "bad", "loaded"}
    /\ pc \in {"idle", "rerun"}
    /\ decision \in {dec_opts[i] : i \in 1..Len(dec_opts)}
    /\ view = "record" => pos \in 0..(Len(df) - 1)
    /\ Interactive => dec_widget = DecIndex(DecisionVal(df[pos + 1]))
    /\ Interactive => cache[only_unreviewed] = [present |-> TRUE, frame |-> df]

\* C1: whenever the frame served to the current render is non-empty, the
\* cursor is an index of it: 0 <= pos < len(df).
C1_CursorInRange == df # <<>> => (0 <= pos /\ pos < Len(df))

\* C2: a save_row that returned true empties the whole cache (both flags'
\* entries, nothing patched) in the same pass and queues a rerun; the frame
\* that rerun serves is built from the sheet as it is after the write and
\* is the only entry memoized.
C2_InvalidateOnSave ==
    [][ /\ last'.ret = "true" =>
            /\ \A f \in BOOLEAN : ~cache'[f].present
            /\ pc' = "rerun"
        /\ (pc = "rerun" /\ last.ret = "true" /\ view' \in Served) =>
            /\ df' = BuildFrame(remote', only_unreviewed')
            /\ cache'[only_unreviewed'] = [present |-> TRUE, frame |-> df']
            /\ ~cache'[~only_unreviewed'].present ]_vars

C2_Witness ==
    /\ pc = "rerun"
    /\ last.ret = "true"
    /\ only_unreviewed
    /\ \A f \in BOOLEAN : ~cache[f].present

\* C3: when a re-fetch serves a non-empty frame that no longer holds the
\* row_id that was current, the pass does not raise and the cursor is 0.
C3_FallbackToZero ==
    [][ (IsRefresh /\ view = "record" /\ df' # <<>>
            /\ current_row \notin RowIds(df'))
        => (view' = "record" /\ pos' = 0) ]_vars

\* C4: when a re-fetch (filter toggled, or after a save) serves a frame
\* that still holds the row_id that was current, the record under the
\* cursor after it has that row_id.
C4_CursorFollowsRowId ==
    [][ (IsRefresh /\ view = "record" /\ current_row \in RowIds(df'))
        => (view' = "record" /\ df'[pos' + 1]._row = current_row) ]_vars

\* C5: the AI block is rendered only by a pass that renders a record whose
\* decision in the served frame, trimmed, is non-empty, and only for a row
\* the sheet holds a decision for; what the selector holds plays no part.
C5_Blinding ==
    (pc = "idle" /\ ai_shown) =>
        /\ view = "record"
        /\ DecisionVal(df[pos + 1]) # <<>>
        /\ \E i \in 1..Len(remote) :
              /\ ToNumericFill(remote[i]._row) = sheet_row_num
              /\ Strip(remote[i].Poenaru_Decision) # <<>>

C5_Witness ==
    /\ pc = "idle"
    /\ ai_shown
    /\ view = "record"
    /\ decision # DecisionVal(df[pos + 1])

\* C6: in every rendered record the AI block is shown exactly when the
\* row's decision in the served frame, trimmed, is non-empty.
C6_RevealIffPersisted ==
    Interactive => (ai_shown <=> DecisionVal(df[pos + 1]) # <<>>)

\* C7: save_row returns true only for an envelope with ok true, and false
\* for every other response; a false result leaves the cursor, the cache,
\* the served frame, the view and the selected decision as they were and
\* queues no rerun.
C7_SaveFalseChangesNothing ==
    /\ [](last.ret = "true" => last.resp = "ok")
    /\ []((last.post # NoPost /\ last.resp # "ok") => last.ret = "false")
    /\ [][ last'.ret = "false" =>
            /\ UNCHANGED <<pos, cache, df, view, ai_shown, decision, dec_widget,
                           only_unreviewed>>
            /\ pc' = "idle" ]_vars

C7_Witness ==
    /\ last.ev = "save"
    /\ last.ret = "false"
    /\ last.resp = "notok"
    /\ decision = <<"No">>
    /\ pc = "idle"

\* C8: Save pressed while the selector holds the empty value issues no
\* POST and changes neither the sheet, the cache nor the cursor.
C8_EmptyDecisionNotSaved ==
    /\ []((last.ev = "save" /\ decision = <<>>) =>
            (last.post = NoPost /\ last.ret = "none"))
    /\ [][ (last'.ev = "save" /\ decision = <<>>) =>
            (UNCHANGED <<remote, cache, pos, pc, df, view>>) ]_vars

C8_Witness ==
    /\ last.ev = "save"
    /\ last.post = NoPost
    /\ decision = <<>>
    /\ view = "record"

\* C9: after save_row(row, {Poenaru_Decision: d}) returned true, the next
\* frame served with the filter off holds a record for row with decision d.
C9_RoundTrip ==
    [][ (awaiting # NoPost /\ pc' = "idle" /\ ~only_unreviewed'
            /\ view' \in Served)
        => Holds(df', awaiting) ]_vars

C9_Witness ==
    /\ pc = "idle"
    /\ ~only_unreviewed
    /\ view = "record"
    /\ awaiting = NoPost
    /\ \E i \in 1..Len(df) : df[i].Poenaru_Decision = <<"No">>

\* C10: every frame fetch_sheet returned (served or memoized) is strictly
\* ascending in _row: sorted, and no _row twice.
C10_SortedUnique ==
    \A f \in {df} \cup {cache[b].frame : b \in BOOLEAN} :
        \A i \in 1..Len(f) : \A j \in 1..Len(f) :
            i < j => f[i]._row < f[j]._row

\* C11: the frame served with the filter on is exactly the records of the
\* frame served with the filter off whose trimmed decision is empty, for
\* the two frames served on either side of a toggle of the checkbox.
C11_FilteredIsSubset ==
    [][ (only_unreviewed' # only_unreviewed /\ pc = "idle"
            /\ view \in Served /\ view' \in Served)
        => IF only_unreviewed' THEN df' = FetchFilterOn(df)
           ELSE df = FetchFilterOn(df') ]_vars

\* C12: Next and Prev move the cursor by exactly one inside the frame and
\* are not available at the last index and at index 0; the step and the
\* run it queues leave the sheet, the cache, the served frame and the
\* filter as they were and render a record.
C12_StepClamped ==
    [][ /\ last'.ev = "next" =>
            /\ pos' = pos + 1
            /\ pos' <= Len(df) - 1
            /\ UNCHANGED <<remote, cache, df, only_unreviewed, view>>
        /\ last'.ev = "prev" =>
            /\ pos' = pos - 1
            /\ pos' >= 0
            /\ UNCHANGED <<remote, cache, df, only_unreviewed, view>>
        /\ (pc = "rerun" /\ last.ev \in {"next", "prev"}) =>
            /\ view' = "record"
            /\ UNCHANGED <<remote, cache, df, only_unreviewed, pos>>
        /\ (Interactive /\ next_disabled) => ~(pos' > pos /\ df' = df)
        /\ (Interactive /\ prev_disabled) => ~(pos' < pos /\ df' = df) ]_vars

C12_Witness ==
    /\ pc = "rerun"
    /\ last.ev = "next"
    /\ pos = Len(df) - 1
    /\ pos >= 2

\* C13: a pass whose remote read fails (envelope without a true ok, or the
\* request raising) ends in the handled error state (st.error with the
\* server's message, st.stop): no record and no AI block rendered, no save
\* possible, nothing memoized for the flag, the cursor as it was.
C13_FailedReadHandled ==
    [][ (pc' = "idle" /\ view' \in {"error", "fetch_exception"})
        => /\ view' = "error"
           /\ df' = <<>>
           /\ ~ai_shown'
           /\ ~cache'[only_unreviewed'].present
           /\ cache' = cache
           /\ pos' = pos
           /\ remote' = remote ]_vars

\* C14: while prompts.csv lacks a required column every pass stops in
\* load_prompts: nothing is fetched or memoized, no record or form is
\* rendered, the cursor is left alone, and the failed load is not memoized.
C14_PromptsHalt ==
    /\ [](prompts = "bad" =>
            /\ view \in {"none", "config"}
            /\ df = <<>>
            /\ ~ai_shown
            /\ \A f \in BOOLEAN : ~cache[f].present)
    /\ [][ (prompts = "bad" /\ prompts' # "ok") =>
            /\ prompts' = "bad"
            /\ view' = "config"
            /\ UNCHANGED <<cache, df, pos, remote>> ]_vars

C14_Witness ==
    /\ prompts = "bad"
    /\ view = "config"
    /\ only_unreviewed
    /\ pc = "idle"

\* C15: every record of a served frame has a decision among the form's
\* values: unset, Yes, No.
C15_DecisionEnumerated ==
    \A i \in 1..Len(df) :
        \E k \in 1..Len(dec_opts) : df[i].Poenaru_Decision = dec_opts[k]

\* C16: every POST is addressed to the _row of the record on display (not
\* to its index) and carries exactly Poenaru_Decision and Reviewed_At, the
\* decision being Yes or No; a write changes the decision of that sheet
\* row and nothing else.
C16_WriteByRowId ==
    /\ [](last.post # NoPost =>
            /\ view = "record"
            /\ last.post.row = df[pos + 1]._row
            /\ last.post.fields = {"Poenaru_Decision", "Reviewed_At"}
            /\ last.post.dec \in {<<"Yes">>, <<"No">>})
    /\ [][ remote' # remote =>
            /\ last'.post # NoPost
            /\ Len(remote') = Len(remote)
            /\ \A i \in 1..Len(remote) :
                  \/ remote'[i] = remote[i]
                  \/ /\ ToNumericFill(remote[i]._row) = df[pos + 1]._row
                     /\ remote'[i]._row = remote[i]._row
                     /\ remote'[i].Poenaru_Decision = last'.post.dec ]_vars

C16_Witness ==
    /\ last.post # NoPost
    /\ last.ret = "true"
    /\ pos >= 1
    /\ last.post.row = df[pos + 1]._row
    /\ last.post.row # pos

C19_CacheCoherent ==
    (pc = "idle" /\ view \in Served) => df = BuildFrame(remote, only_unreviewed)

\* C20: in unreviewed-only mode with the cursor at index 0, the pass after a
\* save that returned true serves a frame one row shorter with the cursor
\* still at 0; while rows remain it renders the unreviewed row of lowest
\* _row, and when none remains it ends in All Done.  All Done serves no
\* record, offers no save, jump, Prev or Next, and leaves the cursor alone.
C20_Completion ==
    /\ [][ (pc = "rerun" /\ last.ret = "true" /\ only_unreviewed /\ pos = 0
               /\ view' \in Served)
           => /\ Len(df') = Len(df) - 1
              /\ pos' = 0
              /\ df' = FetchFilterOn(SortByRow(
                          [i \in 1..Len(remote) |->
                              [remote[i] EXCEPT !._row = ToNumericFill(@)]]))
              /\ IF Len(df') = 0 THEN view' = "done"
                 ELSE /\ view' = "record"
                      /\ IsUnreviewed(df'[1])
                      /\ \A j \in 1..Len(df') : df'[1]._row <= df'[j]._row ]_vars
    /\ [][ (view' = "done" /\ pos # NoPos) => pos' = pos ]_vars
    /\ []((pc = "idle" /\ view = "done") =>
            /\ df = <<>>
            /\ ~ai_shown
            /\ ~ENABLED (Save \/ Jump \/ Prev \/ NextRow \/ SelectDecision))

C20_Witness ==
    /\ pc = "idle"
    /\ view = "done"
    /\ only_unreviewed
    /\ pos = 0
    /\ awaiting # NoPost
    /\ Len(remote) >= 2
    /\ \A i \in 1..Len(remote) : remote[i].Poenaru_Decision \in {<<"Yes">>, <<"No">>}
====
